---- MODULE Spec2Model ----
(***************************************************************************)
(* Model of the Replay class (src/src/replay.hpp): a CSV file is replayed  *)
(* as a sequence of JSON objects.  A character is a one-character string,  *)
(* a C++ std::string is a sequence of characters, the file is the sequence *)
(* of its characters (newlines included) and the std::ifstream is its read *)
(* position together with its eofbit and failbit.                          *)
(***************************************************************************)
EXTENDS Integers, Sequences, FiniteSets, TLC

\* ------------------------------------------------------------------------
\* Bounds of the model
\* ------------------------------------------------------------------------

\* largest number of lines of a source file
MaxLines == 3

\* largest max_cycles argument passed to play
MaxCycles == 2

\* ------------------------------------------------------------------------
\* Characters and strings
\* ------------------------------------------------------------------------

\* the characters in ASCII order: the four control characters the class
\* names, then the printable characters (used to order
\* object keys as the std::map behind nlohmann::json does)
Ascii ==
  << "\t", "\n", "\f", "\r", " ", "!", "\"", "#", "$", "%", "&", "'",
     "(", ")", "*", "+", ",", "-", ".", "/", "0", "1", "2", "3",
     "4", "5", "6", "7", "8", "9", ":", ";", "<", "=", ">", "?",
     "@", "A", "B", "C", "D", "E", "F", "G", "H", "I", "J", "K",
     "L", "M", "N", "O", "P", "Q", "R", "S", "T", "U", "V", "W",
     "X", "Y", "Z", "[", "\\", "]", "^", "_", "a", "b", "c",
     "d", "e", "f", "g", "h", "i", "j", "k", "l", "m", "n", "o",
     "p", "q", "r", "s", "t", "u", "v", "w", "x", "y", "z", "{",
     "|", "}", "~" >>

Ord(c) == CHOOSE i \in 1..Len(Ascii) : Ascii[i] = c

\* std::string::operator< : lexicographic comparison
RECURSIVE StrLess(_, _)
StrLess(a, b) ==
  IF b = << >> THEN FALSE
  ELSE IF a = << >> THEN TRUE
  ELSE IF Head(a) = Head(b) THEN StrLess(Tail(a), Tail(b))
  ELSE Ord(Head(a)) < Ord(Head(b))

\* std::string::find_first_not_of(set): index of the first character not in
\* set, 0 standing for npos
find_first_not_of(line, set) ==
  IF \E i \in 1..Len(line) : line[i] \notin set
  THEN CHOOSE i \in 1..Len(line) :
         /\ line[i] \notin set
         /\ \A j \in 1..(i - 1) : line[j] \in set
  ELSE 0

\* is_comment_line with a slip: the '#' must be the first character
is_comment_line_first_column(line) == line # << >> /\ line[1] = "#"

\* a line is a comment when its first non-space character is '#'
is_comment_line(line) ==
  LET first_char == find_first_not_of(line, {" "})
  IN  IF first_char = 0 THEN FALSE ELSE line[first_char] = "#"

\* a line is empty when it holds only whitespace
is_empty_line(line) == find_first_not_of(line, {" ", "\t", "\r", "\n"}) = 0

\* the test every read loop of the class applies to a line
SkipLine(line) == is_comment_line(line) \/ is_empty_line(line)

\* ------------------------------------------------------------------------
\* Line tokenizer
\* ------------------------------------------------------------------------

RECURSIVE csv_scan(_, _, _, _, _)
csv_scan(line, i, in_quotes, ss, result) ==
  IF i > Len(line) THEN Append(result, ss)
  ELSE LET c == line[i]
       IN  IF c = "\"" THEN csv_scan(line, i + 1, ~in_quotes, ss, result)
           ELSE IF c = "," /\ ~in_quotes
                THEN csv_scan(line, i + 1, in_quotes, << >>, Append(result, ss))
                ELSE csv_scan(line, i + 1, in_quotes, Append(ss, c), result)

\* parse_csv_line with a slip: the quotes are dropped before the scan, so
\* every comma separates
parse_csv_line_quotes_first(line) ==
  csv_scan(SelectSeq(line, LAMBDA c : c # "\""), 1, FALSE, << >>, << >>)

parse_csv_line(line) == csv_scan(line, 1, FALSE, << >>, << >>)

\* ------------------------------------------------------------------------
\* Keypaths
\* ------------------------------------------------------------------------

\* index of the first occurrence of c in s at or after i, Len(s) + 1 if none
IndexFrom(s, c, i) ==
  IF \E j \in i..Len(s) : s[j] = c
  THEN CHOOSE j \in i..Len(s) : s[j] = c /\ \A k \in i..(j - 1) : s[k] # c
  ELSE Len(s) + 1

\* the loop of std::getline(ss, part, '.'): a read that extracts no
\* character fails, so a trailing '.' adds no empty part
RECURSIVE split_scan(_, _, _)
split_scan(keypath, i, parts) ==
  IF i > Len(keypath) THEN parts
  ELSE LET j == IndexFrom(keypath, ".", i)
       IN  split_scan(keypath, j + 1,
                      Append(parts, SubSeq(keypath, i, j - 1)))

\* split_keypath with a change: '[' splits like '.', and ']' is dropped
split_keypath_brackets(keypath) ==
  split_scan(SelectSeq([i \in 1..Len(keypath) |->
                          IF keypath[i] = "[" THEN "." ELSE keypath[i]],
                       LAMBDA c : c # "]"),
             1, << >>)

\* split_keypath with a change: a keypath with a leading '/' is split at
\* each '/'
split_keypath_slashes(keypath) ==
  IF keypath # << >> /\ keypath[1] = "/"
  THEN split_scan([i \in 1..(Len(keypath) - 1) |->
                     IF keypath[i + 1] = "/" THEN "." ELSE keypath[i + 1]],
                  1, << >>)
  ELSE split_scan(keypath, 1, << >>)

split_keypath(keypath) == split_scan(keypath, 1, << >>)

\* ------------------------------------------------------------------------
\* Numbers: std::strtod and std::stoi
\* ------------------------------------------------------------------------

Digits == {"0", "1", "2", "3", "4", "5", "6", "7", "8", "9"}

HexDigits ==
  Digits \cup {"a", "b", "c", "d", "e", "f", "A", "B", "C", "D", "E", "F"}

\* isspace() in the "C" locale
Spaces == {" ", "\t", "\n", "\f", "\r"}

DigitVal(c) == Ord(c) - Ord("0")

UpperCase ==
  {"A", "B", "C", "D", "E", "F", "G", "H", "I", "J", "K", "L", "M",
   "N", "O", "P", "Q", "R", "S", "T", "U", "V", "W", "X", "Y", "Z"}

HexVal(c) ==
  IF c \in Digits THEN DigitVal(c)
  ELSE IF c \in UpperCase THEN 10 + Ord(c) - Ord("A")
  ELSE 10 + Ord(c) - Ord("a")

\* tolower()
ToLower(c) ==
  IF c \in UpperCase THEN Ascii[Ord(c) + Ord("a") - Ord("A")] ELSE c

LowerStr(s) == [i \in 1..Len(s) |-> ToLower(s[i])]

\* first index at or after i whose character is not in set, Len(s) + 1 if none
SpanEnd(s, i, set) ==
  IF \E j \in i..Len(s) : s[j] \notin set
  THEN CHOOSE j \in i..Len(s) :
         s[j] \notin set /\ \A k \in i..(j - 1) : s[k] \in set
  ELSE Len(s) + 1

\* does s hold the word w (lower case) at index i, case-insensitively
HasWord(s, i, w) ==
  /\ i + Len(w) - 1 <= Len(s)
  /\ LowerStr(SubSeq(s, i, i + Len(w) - 1)) = w

\* value of the digits s[from..to] in the given base
RECURSIVE DigitsValue(_, _, _, _, _)
DigitsValue(s, from, to, base, acc) ==
  IF from > to THEN acc
  ELSE IF s[from] = "." THEN DigitsValue(s, from + 1, to, base, acc)
  ELSE DigitsValue(s, from + 1, to, base, acc * base + HexVal(s[from]))

RECURSIVE Pow(_, _)
Pow(b, n) == IF n <= 0 THEN 1 ELSE b * Pow(b, n - 1)

\* a finite double is kept as sign, mantissa and decimal exponent, the
\* mantissa without trailing zeros, so that equal reals have equal values
RECURSIVE NormDec(_, _)
NormDec(m, e) ==
  IF m = 0 THEN <<0, 0>>
  ELSE IF m % 10 = 0 THEN NormDec(m \div 10, e + 1)
  ELSE <<m, e>>

Finite(neg, m, e) ==
  LET n == NormDec(m, e)
  IN  [k |-> "fin", neg |-> (neg /\ n[1] # 0), m |-> n[1], e |-> n[2]]

\* optional sign at index i: the index after it
AfterSign(s, i) == IF i <= Len(s) /\ s[i] \in {"+", "-"} THEN i + 1 ELSE i

\* the value of an exponent whose digits are s[q..d-1], after the mark at
\* index i and an optional sign
ExponentValue(s, i, q, d) ==
  IF q > i + 1 /\ s[i + 1] = "-"
  THEN 0 - DigitsValue(s, q, d - 1, 10, 0)
  ELSE DigitsValue(s, q, d - 1, 10, 0)

\* an exponent with sign up to q and digits up to d: the index after it and
\* its value; an exponent without digits is not consumed
ExponentAt(s, i, q, d) ==
  IF d > q THEN [end |-> d, val |-> ExponentValue(s, i, q, d)]
  ELSE [end |-> i, val |-> 0]

ExponentSigned(s, i, q) == ExponentAt(s, i, q, SpanEnd(s, q, Digits))

\* optional exponent introduced by a character of marks at index i
Exponent(s, i, marks) ==
  IF i <= Len(s) /\ s[i] \in marks
  THEN ExponentSigned(s, i, AfterSign(s, i + 1))
  ELSE [end |-> i, val |-> 0]

\* the value mantissa * 2^e2 of a hexadecimal number, as a decimal
HexValue(neg, mantissa, e2) ==
  IF e2 >= 0 THEN Finite(neg, mantissa * Pow(2, e2), 0)
  ELSE Finite(neg, mantissa * Pow(5, 0 - e2), e2)

\* the number with the given mantissa digits, nf of them after the point,
\* and exponent ex (binary for a hexadecimal number, decimal otherwise)
Scaled(neg, mantissa, nf, hexa, ex) ==
  [end |-> ex.end - 1,
   val |-> IF hexa THEN HexValue(neg, mantissa, ex.val - 4 * nf)
           ELSE Finite(neg, mantissa, ex.val - nf)]

NoConversion == [end |-> 0, val |-> Finite(FALSE, 0, 0)]

\* the number whose integer digits are str[from..d1-1] and whose mantissa
\* ends before index d2 (d2 = d1 when there is no point)
Mantissa(str, neg, from, d1, d2, hexa) ==
  IF (d1 - from) + (IF d2 > d1 THEN d2 - d1 - 1 ELSE 0) = 0 THEN NoConversion
  ELSE Scaled(neg,
              DigitsValue(str, from, d2 - 1, IF hexa THEN 16 ELSE 10, 0),
              IF d2 > d1 THEN d2 - d1 - 1 ELSE 0,
              hexa,
              Exponent(str, d2, IF hexa THEN {"p", "P"} ELSE {"e", "E"}))

\* the integer digits end before d1: take an optional point and the digits
\* after it
Fraction(str, neg, from, d1, digits, hexa) ==
  Mantissa(str, neg, from, d1,
           IF d1 <= Len(str) /\ str[d1] = "."
           THEN SpanEnd(str, d1 + 1, digits) ELSE d1,
           hexa)

\* a number in the digits of one base from index from on
Number(str, neg, from, digits, hexa) ==
  Fraction(str, neg, from, SpanEnd(str, from, digits), digits, hexa)

\* a hexadecimal number after 0x, or a decimal number (which "0x" without
\* a hexadecimal digit is: the 0 alone)
HexOrDecimal(str, p, neg, hex) ==
  IF hex.end > 0 THEN hex ELSE Number(str, neg, p, Digits, FALSE)

\* the characters of the sequence that may follow nan in parentheses
NanChars == Digits \cup UpperCase \cup {ToLower(c) : c \in UpperCase} \cup {"_"}

\* the last index of a nan whose letters end before index i: "(", characters
\* of NanChars and ")" are consumed with it, an unclosed "(" is not
NanClosed(s, i, c) == IF c <= Len(s) /\ s[c] = ")" THEN c ELSE i - 1

NanEnd(s, i) ==
  IF i <= Len(s) /\ s[i] = "(" THEN NanClosed(s, i, SpanEnd(s, i + 1, NanChars))
  ELSE i - 1

\* the number at index p, after white space and sign: infinity, nan, or a
\* hexadecimal or decimal number
Unsigned(str, p, neg) ==
  IF HasWord(str, p, <<"i", "n", "f", "i", "n", "i", "t", "y">>)
  THEN [end |-> p + 7, val |-> [k |-> "inf", neg |-> neg, m |-> 0, e |-> 0]]
  ELSE IF HasWord(str, p, <<"i", "n", "f">>)
  THEN [end |-> p + 2, val |-> [k |-> "inf", neg |-> neg, m |-> 0, e |-> 0]]
  ELSE IF HasWord(str, p, <<"n", "a", "n">>)
  THEN [end |-> NanEnd(str, p + 3),
        val |-> [k |-> "nan", neg |-> neg, m |-> 0, e |-> 0]]
  ELSE HexOrDecimal(str, p, neg,
                    IF HasWord(str, p, <<"0", "x">>)
                    THEN Number(str, neg, p + 2, HexDigits, TRUE)
                    ELSE NoConversion)

Signed(str, ws, p) == Unsigned(str, p, p > ws /\ str[ws] = "-")

\* std::strtod with a slip: leading white space is not skipped
strtod_no_space(str) == Signed(str, 1, AfterSign(str, 1))

\* std::strtod(str, &end): the number of characters consumed (0 when no
\* conversion is performed) and the value
strtod(str) ==
  LET ws == SpanEnd(str, 1, Spaces) IN Signed(str, ws, AfterSign(str, ws))

\* the whole string is a number
is_numeric(str) ==
  IF str = << >> THEN FALSE ELSE strtod(str).end = Len(str)

parse_number(str) == strtod(str).val

\* INT_MAX and -INT_MIN as digit strings
IntMaxDigits == <<"2", "1", "4", "7", "4", "8", "3", "6", "4", "7">>

IntMinDigits == <<"2", "1", "4", "7", "4", "8", "3", "6", "4", "8">>

\* std::stoi(str): strtol in base 10 on the longest prefix; throws
\* std::invalid_argument when there is no digit and std::out_of_range when
\* the value does not fit an int
stoi(str) ==
  LET ws  == SpanEnd(str, 1, Spaces)
      p   == AfterSign(str, ws)
      neg == p > ws /\ str[ws] = "-"
      nz  == SpanEnd(str, p, {"0"})
      d   == SpanEnd(str, p, Digits)
      sig == SubSeq(str, nz, d - 1)
      lim == IF neg THEN IntMinDigits ELSE IntMaxDigits
      v   == DigitsValue(str, nz, d - 1, 10, 0)
  IN  IF d = p THEN [ok |-> FALSE, what |-> "invalid_argument", val |-> 0]
      ELSE IF Len(sig) > 10 \/ (Len(sig) = 10 /\ StrLess(lim, sig))
      THEN [ok |-> FALSE, what |-> "out_of_range", val |-> 0]
      ELSE IF Len(sig) = 10 /\ sig = IntMinDigits
      THEN [ok |-> TRUE, what |-> "", val |-> (0 - 2147483647) - 1]
      ELSE [ok |-> TRUE, what |-> "", val |-> IF neg THEN 0 - v ELSE v]

\* ------------------------------------------------------------------------
\* JSON values (nlohmann::json)
\* ------------------------------------------------------------------------

\* Every value has the same four fields: its type t, the characters s of a
\* string, the double n of a number and the members kv of an object (pairs
\* of key and value, sorted by key as in std::map) or of an array (pairs of
\* the empty key and the element).
NoNumber == Finite(FALSE, 0, 0)

JNull == [t |-> "null", s |-> << >>, n |-> NoNumber, kv |-> << >>]

JObject(members) == [t |-> "object", s |-> << >>, n |-> NoNumber, kv |-> members]

JArray(items) ==
  [t |-> "array", s |-> << >>, n |-> NoNumber,
   kv |-> [i \in 1..Len(items) |-> << << >>, items[i] >>]]

JString(str) == [t |-> "string", s |-> str, n |-> NoNumber, kv |-> << >>]

JNumber(d) == [t |-> "number", s |-> << >>, n |-> d, kv |-> << >>]

\* what a call yields instead of a value when an exception leaves it
JThrow(what) == [t |-> "throw", s |-> <<what>>, n |-> NoNumber, kv |-> << >>]

\* what a call yields when it indexes an empty std::vector (parts[0],
\* parts.back()): undefined behaviour
JUndefined == [t |-> "undefined", s |-> << >>, n |-> NoNumber, kv |-> << >>]

IsValue(j) == j.t \notin {"throw", "undefined"}

\* nlohmann::json{} : value-initialisation, the null value
Sentinel == JNull

\* json::empty(): null is empty, an object or array is empty without
\* members, a scalar never is
JEmpty(j) ==
  CASE j.t = "null" -> TRUE
    [] j.t \in {"object", "array"} -> j.kv = << >>
    [] OTHER -> FALSE

\* json::contains(key)
Contains(j, key) == j.t = "object" /\ \E i \in 1..Len(j.kv) : j.kv[i][1] = key

\* json::operator[](key) on an object that contains key
Get(j, key) == j.kv[CHOOSE i \in 1..Len(j.kv) : j.kv[i][1] = key][2]

\* (*current)[key] = value on an object
Put(j, key, value) ==
  IF Contains(j, key)
  THEN JObject([i \in 1..Len(j.kv) |->
                 IF j.kv[i][1] = key THEN <<key, value>> ELSE j.kv[i]])
  ELSE LET n == Cardinality({i \in 1..Len(j.kv) : StrLess(j.kv[i][1], key)})
       IN  JObject(SubSeq(j.kv, 1, n) \o << <<key, value>> >>
                   \o SubSeq(j.kv, n + 1, Len(j.kv)))

\* the walk of set_nested_value along a non-empty list of parts
RECURSIVE set_path(_, _, _)
set_path(current, parts, value) ==
  IF Len(parts) = 1 THEN Put(current, parts[1], value)
  ELSE LET key   == parts[1]
           child == IF Contains(current, key) /\ Get(current, key).t = "object"
                    THEN Get(current, key)
                    ELSE JObject(<< >>)
       IN  Put(current, key, set_path(child, Tail(parts), value))

\* a field as a JSON scalar: a number when is_numeric, else the string
ScalarOf(value, r) ==
  IF value # << >> /\ r.end = Len(value) THEN JNumber(r.val)
  ELSE JString(value)

\* is_numeric(value) and parse_number(value) read the same strtod result
Scalar(value) == ScalarOf(value, strtod(value))

\* set_nested_value(obj, keypath, const nlohmann::json &value)
set_nested_value_json(obj, keypath, value) ==
  LET parts == split_keypath(keypath)
  IN  IF parts = << >> THEN JUndefined ELSE set_path(obj, parts, value)

\* set_nested_value(obj, keypath, const std::string &value)
set_nested_value(obj, keypath, value) ==
  set_nested_value_json(obj, keypath, Scalar(value))

\* ------------------------------------------------------------------------
\* Row materialisation
\* ------------------------------------------------------------------------

\* parts[0] + "." + parts[1] + ... + parts[j - 1]
RECURSIVE JoinDots(_)
JoinDots(parts) ==
  IF parts = << >> THEN << >>
  ELSE IF Len(parts) = 1 THEN parts[1]
  ELSE parts[1] \o <<".">> \o JoinDots(Tail(parts))

\* arrays[base_keypath][array_index] = value
ArraysPut_keeps_first(arrays, base, index, value) ==
  IF base \in DOMAIN arrays
  THEN [arrays EXCEPT ![base] =
          IF index \in DOMAIN @ THEN @ ELSE @ @@ (index :> value)]
  ELSE arrays @@ (base :> (index :> value))

ArraysPut(arrays, base, index, value) ==
  IF base \in DOMAIN arrays
  THEN [arrays EXCEPT ![base] =
          IF index \in DOMAIN @ THEN [@ EXCEPT ![index] = value]
          ELSE @ @@ (index :> value)]
  ELSE arrays @@ (base :> (index :> value))

\* the search for the array index in the parts of a keypath, from part j
\* on: the first numeric part, 0 when there is none
RECURSIVE first_numeric(_, _)
first_numeric(parts, j) ==
  IF j > Len(parts) THEN 0
  ELSE IF is_numeric(parts[j]) THEN j
  ELSE first_numeric(parts, j + 1)

RECURSIVE columns_scan(_, _, _, _, _)

\* column i holds element index of an array: std::stoi has thrown, or the
\* value goes to the arrays map under the parts before part j
array_column(headers, row, i, result, arrays, parts, j, index) ==
  IF ~index.ok THEN [result |-> JThrow(index.what), arrays |-> arrays]
  ELSE columns_scan(headers, row, i + 1, result,
                    ArraysPut(arrays, JoinDots(SubSeq(parts, 1, j - 1)),
                              index.val, row[i]))

\* column i, whose header has the given parts, the first numeric one at j
column(headers, row, i, result, arrays, parts, j) ==
  IF j = 0
  THEN columns_scan(headers, row, i + 1,
                    set_nested_value(result, headers[i], row[i]), arrays)
  ELSE array_column(headers, row, i, result, arrays, parts, j,
                    stoi(parts[j]))

column_parts(headers, row, i, result, arrays, parts) ==
  column(headers, row, i, result, arrays, parts, first_numeric(parts, 1))

\* the first loop with a slip: a row shorter than the header is padded with
\* empty values
columns_scan_padded(headers, row, i, result, arrays) ==
  IF i > Len(headers) \/ ~IsValue(result)
  THEN [result |-> result, arrays |-> arrays]
  ELSE column_parts(headers,
                    IF i > Len(row)
                    THEN row \o [k \in 1..(i - Len(row)) |-> << >>] ELSE row,
                    i, result, arrays, split_keypath(headers[i]))

\* the first loop of build_json_from_row, from column i on: the object built
\* so far, the arrays map and the exception that stopped it, if any
columns_scan(headers, row, i, result, arrays) ==
  IF i > Len(headers) \/ i > Len(row) \/ ~IsValue(result)
  THEN [result |-> result, arrays |-> arrays]
  ELSE column_parts(headers, row, i, result, arrays,
                    split_keypath(headers[i]))

\* the array with a slip: the values are packed in the order of their
\* indices, no null is put where an index is missing
BuildArrayPacked(index_value_map) ==
  LET indices == {x \in DOMAIN index_value_map : x >= 0}
      nth(k)  == CHOOSE x \in indices :
                   Cardinality({y \in indices : y < x}) = k - 1
  IN  JArray([k \in 1..Cardinality(indices) |->
                Scalar(index_value_map[nth(k)])])

\* the array built from one index -> value map
BuildArray(index_value_map) ==
  LET indices   == DOMAIN index_value_map
      max_index == IF \E x \in indices : x >= 0
                   THEN CHOOSE x \in indices : \A y \in indices : y <= x
                   ELSE 0 - 1
  IN  JArray([k \in 1..(max_index + 1) |->
                IF (k - 1) \in indices THEN Scalar(index_value_map[k - 1])
                ELSE JNull])

\* the second loop with a slip: an array without element is not attached
RECURSIVE arrays_scan_nonempty(_, _, _)
arrays_scan_nonempty(result, arrays, todo) ==
  IF todo = {} \/ ~IsValue(result) THEN result
  ELSE LET base_path == CHOOSE b \in todo : \A c \in todo \ {b} : StrLess(b, c)
       IN  arrays_scan_nonempty(
             IF BuildArray(arrays[base_path]).kv = << >> THEN result
             ELSE set_nested_value_json(result, base_path,
                                        BuildArray(arrays[base_path])),
             arrays, todo \ {base_path})

\* the second loop of build_json_from_row: the arrays in the order of their
\* base paths
RECURSIVE arrays_scan(_, _, _)
arrays_scan(result, arrays, todo) ==
  IF todo = {} \/ ~IsValue(result) THEN result
  ELSE LET base_path == CHOOSE b \in todo : \A c \in todo \ {b} : StrLess(b, c)
       IN  arrays_scan(set_nested_value_json(result, base_path,
                                             BuildArray(arrays[base_path])),
                       arrays, todo \ {base_path})

\* the second loop, over the arrays map the first loop has left
arrays_placed(cols) ==
  arrays_scan(cols.result, cols.arrays, DOMAIN cols.arrays)

build_json_from_row(headers, row) ==
  arrays_placed(columns_scan(headers, row, 1, JObject(<< >>), << >>))

\* ------------------------------------------------------------------------
\* The input stream (std::ifstream _file)
\* ------------------------------------------------------------------------

\* a stream state: pos characters of the file have been consumed
Stream(p, e, f) == [pos |-> p, eof |-> e, fail |-> f]

\* std::ios::good()
good(st) == ~st.eof /\ ~st.fail

\* getline with a slip: a last line without newline is reported as a failed
\* read
getline_eof_fails(f, st) ==
  IF ~good(st)
  THEN [st |-> Stream(st.pos, st.eof, TRUE), line |-> << >>, ok |-> FALSE]
  ELSE LET nl == IndexFrom(f, "\n", st.pos + 1)
       IN  IF nl <= Len(f)
           THEN [st |-> Stream(nl, FALSE, FALSE),
                 line |-> SubSeq(f, st.pos + 1, nl - 1), ok |-> TRUE]
           ELSE [st |-> Stream(Len(f), TRUE, TRUE),
                 line |-> SubSeq(f, st.pos + 1, Len(f)), ok |-> FALSE]

\* std::getline(_file, line).  A stream that is not good fails the read (the
\* sentry sets failbit).  Otherwise the characters up to the next newline are
\* extracted and the newline is consumed; reaching the end of the file sets
\* eofbit, and failbit as well when no character was extracted.
getline(f, st) ==
  IF ~good(st)
  THEN [st |-> Stream(st.pos, st.eof, TRUE), line |-> << >>, ok |-> FALSE]
  ELSE LET nl == IndexFrom(f, "\n", st.pos + 1)
       IN  IF nl <= Len(f)
           THEN [st |-> Stream(nl, FALSE, FALSE),
                 line |-> SubSeq(f, st.pos + 1, nl - 1), ok |-> TRUE]
           ELSE [st |-> Stream(Len(f), TRUE, st.pos = Len(f)),
                 line |-> SubSeq(f, st.pos + 1, Len(f)), ok |-> st.pos < Len(f)]

\* next_line with a slip: comment and blank lines are not skipped
next_line_no_skip(f, st) == getline(f, st)

\* the loop  while (std::getline(_file, line)) { if (is_comment_line(line) ||
\* is_empty_line(line)) continue; ... }  up to the first line it keeps
RECURSIVE next_line(_, _)
next_line(f, st) ==
  LET r == getline(f, st)
  IN  IF r.ok /\ SkipLine(r.line) THEN next_line(f, r.st) ELSE r

\* _file.tellg(): -1 when the stream is not good
tellg(st) == IF good(st) THEN st.pos ELSE 0 - 1

\* clear_seekg with a slip: the clear() is missing, eofbit and failbit stay
clear_seekg_keep_flags(st, p) ==
  Stream(IF p < 0 \/ st.fail THEN st.pos ELSE p, st.eof, st.fail \/ p < 0)

\* _file.clear(); _file.seekg(p): seeking to -1 fails, sets failbit and
\* leaves the position where it was
clear_seekg(st, p) ==
  IF p < 0 THEN Stream(st.pos, FALSE, TRUE) ELSE Stream(p, FALSE, FALSE)

\* ------------------------------------------------------------------------
\* The operations of the class, as functions of the file and the stream
\* ------------------------------------------------------------------------

\* parse_headers with a slip: the first line is the header line, comment or
\* not
parse_headers_first_line(f, st) ==
  LET r == getline(f, st)
  IN  [st |-> r.st, found |-> r.ok,
       headers |-> IF r.ok THEN parse_csv_line(r.line) ELSE << >>]

\* parse_headers with a slip: the header line is split at every comma,
\* quoted or not
parse_headers_every_comma(f, st) ==
  LET r == next_line(f, st)
  IN  [st |-> r.st, found |-> r.ok,
       headers |-> IF r.ok THEN parse_csv_line_quotes_first(r.line) ELSE << >>]

\* parse_headers(): the header fields, or none when the file has no line to
\* keep (the constructor then throws)
parse_headers(f, st) ==
  LET r == next_line(f, st)
  IN  [st |-> r.st, found |-> r.ok,
       headers |-> IF r.ok THEN parse_csv_line(r.line) ELSE << >>]

\* reset with a slip: the header line is not skipped again
reset_to_start(f, st) == clear_seekg(st, 0)

\* reset with a slip: the seekg(0) is missing, the next kept line after the
\* cursor is skipped
reset_from_cursor(f, st) == next_line(f, Stream(st.pos, FALSE, FALSE)).st

\* reset(): the stream after it
reset(f, st) == next_line(f, clear_seekg(st, 0)).st

\* what advance() returns after a read r: the object of the line read, or
\* the sentinel when no line was read
row_or_sentinel(headers, r) ==
  [st  |-> r.st,
   ret |-> IF r.ok THEN build_json_from_row(headers, parse_csv_line(r.line))
           ELSE Sentinel]

\* no line read, the stream left at st
NoLine(st) == [st |-> st, ok |-> FALSE, line |-> << >>]

\* wrapped_read with a slip: the implicit reset is missing
wrapped_read_no_reset(f, loop, r1) == r1

\* wrapped_read with a slip: the loop flag is not tested
wrapped_read_any(f, loop, r1) ==
  IF ~r1.ok /\ r1.st.eof THEN next_line(f, reset(f, r1.st)) ELSE r1

\* the read advance() returns from, r1 being its first read: when r1 found
\* no line and the loop flag is set at end of file, the read after reset()
wrapped_read(f, loop, r1) ==
  IF ~r1.ok /\ loop /\ r1.st.eof THEN next_line(f, reset(f, r1.st)) ELSE r1

\* advance with a slip: after the implicit reset no line is read
advance_no_retry(f, st, loop, headers) ==
  LET r1 == next_line(f, st)
  IN  row_or_sentinel(headers,
                      IF ~r1.ok /\ loop /\ r1.st.eof
                      THEN NoLine(reset(f, r1.st)) ELSE r1)

\* advance with a slip: the reset is made before the loop flag is tested
advance_resets_first(f, st, loop, headers) ==
  LET r1 == next_line(f, st)
  IN  row_or_sentinel(headers,
                      IF r1.ok THEN r1
                      ELSE IF loop /\ r1.st.eof
                      THEN next_line(f, reset(f, r1.st))
                      ELSE NoLine(reset(f, r1.st)))

\* advance(): the stream after it and the value returned
advance(f, st, loop, headers) ==
  row_or_sentinel(headers, wrapped_read(f, loop, next_line(f, st)))

\* has_next with a slip: the loop flag is not tested
has_next_loop_only(st, loop) == loop

has_next_stream_only(st, loop) == good(st) /\ ~st.eof

\* has_next with a slip: eofbit is not tested
has_next_fail_only(st, loop) == IF loop THEN TRUE ELSE ~st.fail

\* has_next()
has_next(st, loop) == IF loop THEN TRUE ELSE good(st) /\ ~st.eof

\* set_loop with a slip: the flag, once set, stays set
set_loop_sticky(loop, enabled) == loop \/ enabled

\* set_loop(enabled): the loop flag after it
set_loop(loop, enabled) == enabled

\* is_loop_enabled()
is_loop_enabled(loop) == loop

\* the counting loop of count_data_rows
RECURSIVE count_lines_every_line(_, _, _)
count_lines_every_line(f, st, count) ==
  LET r == next_line_no_skip(f, st)
  IN  IF r.ok THEN count_lines_every_line(f, r.st, count + 1)
      ELSE [st |-> r.st, count |-> count]

RECURSIVE count_lines(_, _, _)
count_lines(f, st, count) ==
  LET r == next_line(f, st)
  IN  IF r.ok THEN count_lines(f, r.st, count + 1)
      ELSE [st |-> r.st, count |-> count]

\* count_data_rows with a slip: the rows are counted from the cursor, the
\* reset() is missing
count_data_rows_from_cursor(f, st) ==
  LET current_pos == tellg(st)
      c           == count_lines(f, st, 0)
  IN  [st |-> clear_seekg(c.st, current_pos), count |-> c.count]

\* count_data_rows with a slip: the position is not restored
count_data_rows_no_restore(f, st) == count_lines(f, reset(f, st), 0)

\* count_data_rows(): the count and the stream after it
count_data_rows(f, st) ==
  LET current_pos == tellg(st)
      c           == count_lines(f, reset(f, st), 0)
  IN  [st |-> clear_seekg(c.st, current_pos), count |-> c.count]

\* ------------------------------------------------------------------------
\* Source files
\* ------------------------------------------------------------------------

\* the lines a source file is made of
LineAB == <<"a", ",", "b", ".", "0">>

Line1X == <<"1", ",", "x">>

LineNote == <<"#", " ", "c">>

LineBlank == << >>

Lines == {LineAB, Line1X, LineNote, LineBlank}

\* the sequences of at most n lines
RECURSIVE LineSeqs(_)
LineSeqs(n) ==
  IF n = 0 THEN {<< >>}
  ELSE LET shorter == LineSeqs(n - 1)
       IN  shorter \cup {Append(ls, l) : ls \in shorter, l \in Lines}

\* the characters of a file: its lines, each but the last followed by a
\* newline, the last one followed by a newline or not
RECURSIVE Content(_, _)
Content(ls, final_newline) ==
  IF ls = << >> THEN << >>
  ELSE IF Len(ls) = 1
  THEN Head(ls) \o (IF final_newline THEN <<"\n">> ELSE << >>)
  ELSE Head(ls) \o <<"\n">> \o Content(Tail(ls), final_newline)

\* the lines of a file in order, a final newline ending the last line
RECURSIVE FileLines(_, _)
FileLines(f, from) ==
  IF from > Len(f) THEN << >>
  ELSE LET nl == IndexFrom(f, "\n", from)
       IN  <<SubSeq(f, from, nl - 1)>> \o FileLines(f, nl + 1)

\* the lines of the file that are neither comments nor blank: the header
\* line first, then the data lines
KeptLines(f) == SelectSeq(FileLines(f, 1), LAMBDA l : ~SkipLine(l))

\* a header field build_json_from_row can place: its keypath has a part,
\* and when one of its parts is numeric the first such part converts to an
\* int and has a part before it.  With any other header field
\* build_json_from_row throws or indexes an empty vector.
UsableAt(parts, j) ==
  j # 0 =>
    /\ stoi(parts[j]).ok
    /\ split_keypath(JoinDots(SubSeq(parts, 1, j - 1))) # << >>

UsableParts(parts) ==
  parts # << >> /\ UsableAt(parts, first_numeric(parts, 1))

UsableField(field) == UsableParts(split_keypath(field))

UsableFields(fields) == \A i \in 1..Len(fields) : UsableField(fields[i])

UsableHeader(line) == UsableFields(parse_csv_line(line))

\* the source files of the model: those without header line and those with
\* a usable header line
Files ==
  {f \in {Content(ls, nl) : ls \in LineSeqs(MaxLines), nl \in BOOLEAN} :
     KeptLines(f) # << >> => UsableHeader(Head(KeptLines(f)))}

\* ------------------------------------------------------------------------
\* State
\* ------------------------------------------------------------------------

\* most calls of advance() counted after a construction, a reset or a play
MaxCalls == 2 * MaxLines + 1

VARIABLES
  openable,        \* the path names a file that can be opened
  file,            \* the characters of that file
  status,          \* "Unopened", "Ready", or "Failed" when the constructor threw
  thrown,          \* what() of the exception the constructor threw, or ""
  _file,           \* the stream: position, eofbit, failbit
  _headers,        \* the header fields
  _headersparsed,  \* the flag parse_headers sets
  _loop_enabled,   \* the loop flag
  play,            \* the call of play() in progress, or the last one
  cb,              \* the objects that call has passed to its callback
  op,              \* the last operation called
  ret,             \* the value the last advance() returned
  retb,            \* the value the last has_next() returned
  track,           \* the calls of advance() since the cursor was last placed
  exhausted,       \* advance() has returned the sentinel with the loop flag
                   \* unset, and neither reset() nor set_loop(true) came after
  arg,             \* a member function called on its own, with its argument
  out              \* what that call has returned

vars ==
  <<openable, file, status, thrown, _file, _headers, _headersparsed,
    _loop_enabled, play, cb, op, ret, retb, track, exhausted, arg, out>>

unit == <<arg, out>>

source == <<openable, file>>

engine == <<status, thrown, _file, _headers, _headersparsed, _loop_enabled>>

\* no call of play() in progress
NoPlay ==
  [pc |-> "idle", max_cycles |-> 0, total |-> 0, processed |-> 0,
   start |-> Stream(0, FALSE, FALSE), from |-> "none", loop |-> FALSE]

\* track: the operation that last placed the cursor (origin), the number n
\* of advance() calls since, and the values the loop flag had at those calls
Track(origin, n, flags) == [origin |-> origin, n |-> n, flags |-> flags]

\* no object constructed yet
Fresh ==
  /\ status = "Unopened"
  /\ thrown = ""
  /\ _file = Stream(0, FALSE, FALSE)
  /\ _headers = << >>
  /\ _headersparsed = FALSE
  /\ _loop_enabled = FALSE
  /\ play = NoPlay
  /\ cb = << >>
  /\ op = "none"
  /\ ret = JNull
  /\ retb = FALSE
  /\ track = Track("none", 0, {})
  /\ exhausted = FALSE

\* no member function called on its own
NoCall == [fn |-> "none", str |-> << >>]

NoResult == [done |-> FALSE, fields |-> << >>, json |-> JNull]

Init ==
  /\ \/ openable = TRUE /\ file \in Files
     \/ openable = FALSE /\ file = << >>
  /\ Fresh
  /\ arg = NoCall
  /\ out = NoResult

\* ------------------------------------------------------------------------
\* Operations
\* ------------------------------------------------------------------------

\* the object exists and no call is in progress
Idle == status = "Ready" /\ play.pc \in {"idle", "returned"}

\* the constructor after the file is open, parse_headers() having returned h
Constructed(h) ==
  /\ _file' = h.st
  /\ IF ~h.found
     THEN /\ status' = "Failed"
          /\ thrown' = "CSV file is empty or cannot read header line"
          /\ UNCHANGED <<_headers, _headersparsed, track>>
     ELSE /\ status' = "Ready"
          /\ thrown' = ""
          /\ _headers' = h.headers
          /\ _headersparsed' = TRUE
          /\ track' = Track("construct", 0, {})

\* Replay(csv_filepath)
Construct ==
  /\ status = "Unopened"
  /\ IF ~openable
     THEN /\ status' = "Failed"
          /\ thrown' = "Failed to open CSV file"
          /\ UNCHANGED <<_file, _headers, _headersparsed, track>>
     ELSE Constructed(parse_headers(file, _file))
  /\ op' = "construct"
  /\ UNCHANGED <<source, unit, _loop_enabled, play, cb, ret, retb, exhausted>>

\* the track after one more advance()
Advanced(t, loop) ==
  IF t.origin = "none" \/ t.n >= MaxCalls THEN Track("none", 0, {})
  ELSE Track(t.origin, t.n + 1, t.flags \cup {loop})

\* advance() has returned r
AdvanceReturns(r) ==
  /\ _file' = r.st
  /\ ret' = r.ret
  /\ exhausted' = (exhausted \/ (~_loop_enabled /\ r.ret = Sentinel))

\* advance()
Advance ==
  /\ Idle
  /\ AdvanceReturns(advance(file, _file, _loop_enabled, _headers))
  /\ op' = "advance"
  /\ retb' = FALSE
  /\ track' = Advanced(track, _loop_enabled)
  /\ play' = NoPlay
  /\ cb' = << >>
  /\ UNCHANGED <<source, unit, status, thrown, _headers, _headersparsed, _loop_enabled>>

\* has_next()
HasNext ==
  /\ Idle
  /\ retb' = has_next(_file, _loop_enabled)
  /\ op' = "has_next"
  /\ ret' = JNull
  /\ play' = NoPlay
  /\ cb' = << >>
  /\ UNCHANGED <<source, unit, engine, track, exhausted>>

\* reset()
Reset ==
  /\ Idle
  /\ _file' = reset(file, _file)
  /\ op' = "reset"
  /\ ret' = JNull
  /\ retb' = FALSE
  /\ track' = Track("reset", 0, {})
  /\ exhausted' = FALSE
  /\ play' = NoPlay
  /\ cb' = << >>
  /\ UNCHANGED <<source, unit, status, thrown, _headers, _headersparsed, _loop_enabled>>

\* set_loop(enabled)
SetLoop(enabled) ==
  /\ Idle
  /\ _loop_enabled' = set_loop(_loop_enabled, enabled)
  /\ op' = "set_loop"
  /\ ret' = JNull
  /\ retb' = FALSE
  /\ exhausted' = (exhausted /\ ~enabled)
  /\ play' = NoPlay
  /\ cb' = << >>
  /\ UNCHANGED <<source, unit, status, thrown, _file, _headers, _headersparsed, track>>

\* most callbacks followed in one call of play()
MaxCallbacks == MaxCycles * MaxLines + 1

\* the call of play(func, max_cycles) at its entry
PlayEntry(max_cycles) ==
  [pc |-> "normal", max_cycles |-> max_cycles, total |-> 0,
   processed |-> 0, start |-> _file,
   from |-> IF track.n = 0 THEN track.origin ELSE "none",
   loop |-> _loop_enabled]

\* the finite-looping branch of play(), count_data_rows() having returned c
PlayCounted(max_cycles, c) ==
  IF c.count = 0
  THEN /\ play' = [PlayEntry(max_cycles) EXCEPT !.pc = "returned"]
       /\ track' = Track("play", 0, {_loop_enabled})
       /\ _file' = c.st
  ELSE /\ play' = [PlayEntry(max_cycles) EXCEPT
                     !.pc = "cycles", !.total = max_cycles * c.count]
       /\ track' = Track("none", 0, {})
       /\ _file' = reset(file, c.st)

\* play(func, max_cycles), up to its loop.  The callback only receives the
\* object: it calls no operation of the class.
Play(max_cycles) ==
  /\ Idle
  /\ op' = "play"
  /\ ret' = JNull
  /\ retb' = FALSE
  /\ cb' = << >>
  /\ IF ~_loop_enabled \/ max_cycles = 0
     THEN /\ play' = PlayEntry(max_cycles)
          /\ track' = Track("none", 0, {})
          /\ UNCHANGED _file
     ELSE PlayCounted(max_cycles, count_data_rows(file, _file))
  /\ UNCHANGED <<source, unit, status, thrown, _headers, _headersparsed,
                 _loop_enabled, exhausted>>

\* one turn of the loop of play(), advance() having returned r
PlayTurn(r) ==
  /\ _file' = r.st
  /\ exhausted' = (exhausted \/ (~_loop_enabled /\ r.ret = Sentinel))
  /\ IF ~IsValue(r.ret)
     THEN /\ play' = [play EXCEPT !.pc = "returned"]
          /\ ret' = r.ret
          /\ track' = Track("none", 0, {})
          /\ UNCHANGED cb
     ELSE IF JEmpty(r.ret)
     THEN /\ play' = [play EXCEPT !.pc = "returned"]
          /\ track' = Track("play", 0, {_loop_enabled})
          /\ UNCHANGED <<cb, ret>>
     ELSE /\ play' = [play EXCEPT !.processed = @ + 1]
          /\ cb' = Append(cb, r.ret)
          /\ UNCHANGED <<track, ret>>

\* one evaluation of the loop condition of play() and, when it holds, one
\* turn of the loop; play() returns when the condition fails or advance()
\* returns an empty object
PlayIterate ==
  /\ status = "Ready"
  /\ play.pc \in {"normal", "cycles"}
  /\ Len(cb) < MaxCallbacks
  /\ IF /\ play.pc = "cycles" => play.processed < play.total
        /\ has_next(_file, _loop_enabled)
     THEN PlayTurn(advance(file, _file, _loop_enabled, _headers))
     ELSE /\ play' = [play EXCEPT !.pc = "returned"]
          /\ track' = Track("play", 0, {_loop_enabled})
          /\ UNCHANGED <<_file, cb, ret, exhausted>>
  /\ UNCHANGED <<source, unit, status, thrown, _headers, _headersparsed,
                 _loop_enabled, op, retb>>

Next ==
  \/ Construct
  \/ Advance
  \/ HasNext
  \/ Reset
  \/ \E enabled \in BOOLEAN : SetLoop(enabled)
  \/ \E max_cycles \in 0..MaxCycles : Play(max_cycles)
  \/ PlayIterate

Spec == Init /\ [][Next]_vars

\* ------------------------------------------------------------------------
\* Source files with any header line
\* ------------------------------------------------------------------------

\* header lines: nested keys with bracketed indices, sparse indices, a
\* scalar and an indexed column, a numeric part that is no int, a numeric
\* first part, an empty field, a negative index, an array under an array,
\* an open bracket and quote, a slash-delimited path, a quoted comma
HeadBrackets ==
  <<"t", ",", "d", ".", "n", ",", "s", "[", "0", "]", ",", "s", "[", "1", "]">>

HeadDots ==
  <<"t", ",", "d", ".", "n", ",", "s", ".", "0", ",", "s", ".", "1">>

HeadSparse == <<"s", ".", "0", ",", "s", ".", "2">>

HeadNan == <<"a", ",", "n", "a", "n">>

HeadZero == <<"0">>

HeadEmptyField == <<"a", ",", ",", "b">>

HeadNegative == <<"s", ".", "-", "1", ",", "s", ".", "1">>

HeadNested == <<"s", ".", "0", ",", "s", ".", "t", ".", "0">>

HeadOpenBracket == <<"a", "[", ",", "\"", "b">>

HeadSlash == <<"/", "d", "/", "n">>

HeadQuoted == <<"\"", "a", ",", "b", "\"", ",", "c">>

HeadItems ==
  <<"i", ".", "0", ".", "n", ",", "i", ".", "0", ".", "1", ",", "k", ".", "m">>

HeaderLines ==
  {HeadBrackets, HeadDots, HeadSparse, LineAB, HeadNan, HeadZero,
   HeadEmptyField, HeadNegative, HeadNested, HeadOpenBracket, HeadSlash,
   HeadQuoted, HeadItems}

\* data lines: four values, fewer, more, one, an empty value, an
\* unterminated quote
RowFour == <<"1", ",", "j", ",", "5", ",", "6">>

RowThree == <<"1", ",", "j", ",", "5">>

RowFive == <<"1", ",", "j", ",", "5", ",", "6", ",", "7">>

RowOne == <<"x">>

RowGap == <<"5", ",", ",", "7">>

RowOpenQuote == <<"5", ",", "\"", "6", ",", "7">>

DataLineSet == {RowFour, RowThree, RowFive, RowOne, RowGap, RowOpenQuote}

\* lines around the header line and the data line: a comment after a tab,
\* a comment after a space, a line of white space
NoteAfterTab == <<"\t", "#">>

NoteAfterSpace == <<" ", "#">>

LineOfSpace == <<" ", "\t">>

Around == {<< >>, <<NoteAfterTab>>, <<NoteAfterSpace>>, <<LineOfSpace>>}

\* a header line and one data line; or the header line a and the data line
\* 1 with the lines around them
AnyFiles ==
  {Content(<<h, r>>, TRUE) : h \in HeaderLines, r \in DataLineSet}
  \cup {Content(n1 \o <<<<"a">>>> \o n2 \o <<<<"1">>>> \o n3, TRUE) :
          n1 \in Around, n2 \in Around, n3 \in Around}

InitAny ==
  /\ openable = TRUE
  /\ file \in AnyFiles
  /\ Fresh
  /\ arg = NoCall
  /\ out = NoResult

\* the engine on a source file with any header line
SpecAny == InitAny /\ [][Next]_vars

\* ------------------------------------------------------------------------
\* Member functions called on their own
\* ------------------------------------------------------------------------

\* longest line given to parse_csv_line, longest field given to
\* set_nested_value
MaxLineLen == 5

MaxFieldLen == 4

\* the strings of at most n characters of a set
RECURSIVE Strings(_, _)
Strings(chars, n) ==
  IF n = 0 THEN {<< >>}
  ELSE LET shorter == Strings(chars, n - 1)
       IN  shorter \cup {Append(str, c) : str \in shorter, c \in chars}

LineChars == {"a", ",", "\""}

FieldChars == {" ", "-", "1", ".", "e", "0", "x", "n", "a"}

\* fields longer than MaxFieldLen or with other characters
LongFields ==
  { <<"i", "n", "f", "i", "n", "i", "t", "y">>, <<"-", "I", "n", "f">>,
    <<"i", "n", "f", "i", "n", "i">>, <<"N", "A", "N">>,
    <<"n", "a", "n", "(", ")">>, <<"n", "a", "n", "(", "1", "_", ")">>,
    <<"n", "a", "n", "(">>, <<"n", "a", "n", "(", "-", ")">>,
    <<"\t", "+", "1", ".", "5", "E", "-", "2">>, <<"1", ".", "5", "\t">>,
    <<"0", "X", "1", ".", "8", "P", "+", "1">>, <<"0", "x", "1", "p">>,
    <<"1", "2", "a">>, <<"1", ",", "5">>, <<"1", "e", "1", "0">>,
    <<" ", "-", " ", "1">>, <<"+", "-", "1">> }

Calls ==
  {[fn |-> "parse_csv_line", str |-> l] : l \in Strings(LineChars, MaxLineLen)}
  \cup {[fn |-> "set_nested_value", str |-> v] :
          v \in Strings(FieldChars, MaxFieldLen) \cup LongFields}

InitUnit ==
  /\ openable = FALSE
  /\ file = << >>
  /\ Fresh
  /\ arg \in Calls
  /\ out = NoResult

\* parse_csv_line(line)
ParseCsvLine ==
  /\ arg.fn = "parse_csv_line"
  /\ ~out.done
  /\ out' = [done |-> TRUE, fields |-> parse_csv_line(arg.str), json |-> JNull]
  /\ UNCHANGED <<source, engine, play, cb, op, ret, retb, track, exhausted, arg>>

\* set_nested_value(obj, "k", value) on an empty object
SetNestedValue ==
  /\ arg.fn = "set_nested_value"
  /\ ~out.done
  /\ out' = [done |-> TRUE, fields |-> << >>,
             json |-> set_nested_value(JObject(<< >>), <<"k">>, arg.str)]
  /\ UNCHANGED <<source, engine, play, cb, op, ret, retb, track, exhausted, arg>>

NextUnit == ParseCsvLine \/ SetNestedValue

SpecUnit == InitUnit /\ [][NextUnit]_vars

\* ------------------------------------------------------------------------
\* One call of advance() statement by statement, one call of play() turn
\* by turn
\* ------------------------------------------------------------------------

\* most implicit resets followed in one call of advance()
MaxResets == 3

\* the stream after k lines were read from it by advance()
RECURSIVE after_reads(_, _, _)
after_reads(f, st, k) ==
  IF k = 0 THEN st ELSE after_reads(f, next_line(f, st).st, k - 1)

\* the streams an object on file f is left with: by its constructor and the
\* calls of advance() after it, and by a play() made then that returns
\* after its row count found no row (which on a stream that is not good
\* leaves failbit alone set)
StartStreams(f) ==
  LET read == {after_reads(f, parse_headers(f, Stream(0, FALSE, FALSE)).st, k) :
                 k \in 0..(MaxLines + 1)}
  IN  read \cup {count_data_rows(f, st).st :
                    st \in {s \in read : count_data_rows(f, s).count = 0}}

\* the object build_json_from_row gives for each line of f that advance()
\* can return, under the header line of f
RowObjects(f) ==
  [line \in {KeptLines(f)[i] : i \in 1..Len(KeptLines(f))} |->
     build_json_from_row(parse_csv_line(Head(KeptLines(f))),
                         parse_csv_line(line))]

InitSteps ==
  /\ openable = TRUE
  /\ file \in {f \in Files : KeptLines(f) # << >>}
  /\ status = "Ready"
  /\ thrown = ""
  /\ _file \in StartStreams(file)
  /\ _headers = parse_headers(file, Stream(0, FALSE, FALSE)).headers
  /\ _headersparsed = TRUE
  /\ _loop_enabled \in BOOLEAN
  /\ play = NoPlay
  /\ cb = << >>
  /\ op = "advance"
  /\ ret = JNull
  /\ retb = FALSE
  /\ track = Track("none", 0, {})
  /\ exhausted = FALSE
  /\ \E fn \in {"advance", "play"} :
       /\ arg = [fn |-> fn, str |-> << >>, st |-> _file,
                 rows |-> RowObjects(file)]
       /\ out = [pc |-> IF fn = "advance" THEN "scan" ELSE "while",
                 resets |-> 0]

\* rescan_failed with a slip: the test of the loop flag is made again, as
\* in a while statement
rescan_failed_retries(loop, st) == IF loop /\ st.eof THEN "test" ELSE "return"

\* where advance() goes when the scan after the reset reads no line: to its
\* last statement
rescan_failed(loop, st) == "return"

\* where a call of advance() returns to: the body of the loop of play(), or
\* the end of a call made on its own
returns_to(fn) == IF fn = "play" THEN "body" ELSE "done"

\* one turn of a while (std::getline(_file, line)) loop of advance(), the
\* read being r: a comment or blank line is skipped, another line is
\* returned as the object build_json_from_row gives for it (arg.rows holds
\* these objects), and a failed read leaves the loop for onfail
ScanTurn(r, onfail) ==
  /\ _file' = r.st
  /\ IF r.ok /\ SkipLine(r.line) THEN UNCHANGED <<out, ret>>
     ELSE IF r.ok
     THEN /\ out' = [out EXCEPT !.pc = returns_to(arg.fn)]
          /\ ret' = arg.rows[r.line]
     ELSE /\ out' = [out EXCEPT !.pc = onfail]
          /\ UNCHANGED ret

\* a turn of the first loop of advance()
Scan ==
  /\ out.pc = "scan"
  /\ ScanTurn(getline(file, _file), "test")
  /\ UNCHANGED <<source, status, thrown, _headers, _headersparsed,
                 _loop_enabled, play, cb, op, retb, track, exhausted, arg>>

\* the test with a slip: no wrap-around when the read has failed
wraps_unless_failed(loop, st) == loop /\ st.eof /\ ~st.fail

\* _loop_enabled && _file.eof()
wraps(loop, st) == loop /\ st.eof

\* if (_loop_enabled && _file.eof()) reset();
TestLoop ==
  /\ out.pc = "test"
  /\ out.resets < MaxResets
  /\ IF wraps(_loop_enabled, _file)
     THEN /\ _file' = reset(file, _file)
          /\ out' = [pc |-> "rescan", resets |-> out.resets + 1]
     ELSE /\ out' = [out EXCEPT !.pc = "return"]
          /\ UNCHANGED _file
  /\ UNCHANGED <<source, status, thrown, _headers, _headersparsed,
                 _loop_enabled, play, cb, op, ret, retb, track, exhausted, arg>>

\* a turn of the loop of advance() after the reset
Rescan ==
  /\ out.pc = "rescan"
  /\ ScanTurn(getline(file, _file), rescan_failed(_loop_enabled, _file))
  /\ UNCHANGED <<source, status, thrown, _headers, _headersparsed,
                 _loop_enabled, play, cb, op, retb, track, exhausted, arg>>

\* return nlohmann::json{};
ReturnSentinel ==
  /\ out.pc = "return"
  /\ out' = [out EXCEPT !.pc = returns_to(arg.fn)]
  /\ ret' = Sentinel
  /\ UNCHANGED <<source, engine, play, cb, op, retb, track, exhausted, arg>>

\* play(func, 0): while (has_next()) and the call of advance() in the loop
PlayWhile ==
  /\ arg.fn = "play"
  /\ out.pc = "while"
  /\ Len(cb) < MaxCallbacks
  /\ out' = [pc |-> IF has_next(_file, _loop_enabled) THEN "scan" ELSE "done",
             resets |-> 0]
  /\ UNCHANGED <<source, engine, play, cb, op, ret, retb, track, exhausted, arg>>

\* the body of the loop of play() after advance() has returned: an empty
\* object leaves the loop, any other object is passed to the callback, which
\* only receives it
PlayBody ==
  /\ arg.fn = "play"
  /\ out.pc = "body"
  /\ IF JEmpty(ret)
     THEN out' = [out EXCEPT !.pc = "done"] /\ UNCHANGED cb
     ELSE out' = [out EXCEPT !.pc = "while"] /\ cb' = Append(cb, ret)
  /\ UNCHANGED <<source, engine, play, op, ret, retb, track, exhausted, arg>>

NextSteps ==
  Scan \/ TestLoop \/ Rescan \/ ReturnSentinel \/ PlayWhile \/ PlayBody

\* the statements of a call are executed one after the other: no statement
\* that can be executed waits forever
SpecSteps == InitSteps /\ [][NextSteps]_vars /\ WF_vars(NextSteps)

\* ------------------------------------------------------------------------
\* What the file holds, read off its text
\* ------------------------------------------------------------------------

\* the header line is the first kept line, the data lines are the others
HasHeader == KeptLines(file) # << >>

DataLines == IF HasHeader THEN Tail(KeptLines(file)) ELSE << >>

N == Len(DataLines)

\* the record of the i-th data line
Rec(i) ==
  build_json_from_row(parse_csv_line(Head(KeptLines(file))),
                      parse_csv_line(DataLines[i]))

\* the records of all data lines in file order
AllRecs == [i \in 1..N |-> Rec(i)]

\* the position just after the first kept line at or after position p (its
\* newline included), the end of the file when there is none
RECURSIVE AfterKept(_, _)
AfterKept(f, p) ==
  IF p >= Len(f) THEN Len(f)
  ELSE LET nl == IndexFrom(f, "\n", p + 1)
       IN  IF SkipLine(SubSeq(f, p + 1, nl - 1))
           THEN AfterKept(f, IF nl > Len(f) THEN Len(f) ELSE nl)
           ELSE IF nl > Len(f) THEN Len(f) ELSE nl

AfterHeader == AfterKept(file, 0)

\* the records of the data lines that start at or after position p
RecsAfter(p) ==
  LET ls == SelectSeq(FileLines(file, p + 1), LAMBDA l : ~SkipLine(l))
  IN  [i \in 1..Len(ls) |->
         build_json_from_row(parse_csv_line(Head(KeptLines(file))),
                             parse_csv_line(ls[i]))]

\* the last advance() was the n-th of a run of calls that began at the
\* given origin and were all made with the loop flag equal to loop
Drained(origin, loop) ==
  /\ status = "Ready"
  /\ op = "advance"
  /\ track.origin = origin
  /\ track.flags = {loop}

\* ------------------------------------------------------------------------
\* Claims
\* ------------------------------------------------------------------------

\* C1: with the loop flag unset, the k-th advance() after construction
\* returns the non-empty record of the k-th data line for k <= N, and the
\* sentinel empty record for k > N, whether or not the file ends with a
\* newline; comment and blank lines give no record.
C1_DrainYieldsDataLines ==
  Drained("construct", FALSE) =>
    IF track.n <= N
    THEN ret = Rec(track.n) /\ ~JEmpty(ret)
    ELSE ret = Sentinel

\* C1 witness: a file without final newline that holds a comment, its data
\* lines read and the next advance() returning the sentinel
C1_Witness ==
  /\ Drained("construct", FALSE)
  /\ N >= 1 /\ track.n = N + 1 /\ ret = Sentinel
  /\ file[Len(file)] # "\n"
  /\ \E i \in 1..Len(file) : file[i] = "#"

\* C2: reset() puts the cursor just after the header line, and with the
\* loop flag unset the k-th advance() after a reset returns what the k-th
\* advance() after construction returns: the record of the k-th data line,
\* then the sentinel.
C2_ResetReplays ==
  /\ (status = "Ready" /\ op = "reset") =>
       (_file.pos = AfterHeader /\ ~_file.fail)
  /\ Drained("reset", FALSE) =>
       IF track.n <= N
       THEN ret = Rec(track.n) /\ ~JEmpty(ret)
       ELSE ret = Sentinel

\* C2 witness: the second data line read again after a reset
C2_Witness ==
  /\ Drained("reset", FALSE)
  /\ N = 2 /\ track.n = 2 /\ ret = Rec(2) /\ Rec(1) # Rec(2)

\* C3: with the loop flag set and N >= 1, the i-th advance() after
\* construction returns the record of data line ((i - 1) mod N) + 1.
C3_LoopIsPeriodic ==
  (Drained("construct", TRUE) /\ N >= 1) =>
    ret = Rec(((track.n - 1) % N) + 1)

\* C3 witness: the fifth advance() over two different data lines, after two
\* wrap-arounds
C3_Witness ==
  /\ Drained("construct", TRUE)
  /\ N = 2 /\ track.n = 5 /\ ret = Rec(1) /\ Rec(1) # Rec(2)

RECURSIVE Repeat(_, _)
Repeat(s, k) == IF k <= 0 THEN << >> ELSE s \o Repeat(s, k - 1)

\* C5: with the loop flag set, max_cycles = k > 0 and N >= 1, play calls
\* the callback exactly k * N times, with the records of data lines 1..N
\* repeated k times, wherever the cursor was when play was called.
C5_PlayCycles ==
  (play.pc = "returned" /\ play.loop /\ play.max_cycles > 0 /\ N >= 1) =>
    /\ Len(cb) = play.max_cycles * N
    /\ cb = Repeat(AllRecs, play.max_cycles)

\* C5 witness: two cycles over two data lines, play called on an exhausted
\* stream
C5_Witness ==
  /\ play.pc = "returned" /\ play.loop /\ play.max_cycles = 2 /\ N = 2
  /\ Len(cb) = 4 /\ play.start.fail

\* C6: with the loop flag unset, play (for any max_cycles) calls the
\* callback once for each data line between the cursor and the end of the
\* source, in file order and never with an empty record; after it advance()
\* returns the sentinel; and a play right after construction or right after
\* a reset calls the callback N times.
C6_PlayOnce ==
  /\ (play.pc = "returned" /\ ~play.loop) =>
       /\ cb = RecsAfter(play.start.pos)
       /\ \A i \in 1..Len(cb) : ~JEmpty(cb[i])
       /\ play.from \in {"construct", "reset"} => Len(cb) = N
  /\ (status = "Ready" /\ op = "advance" /\ track.origin = "play"
      /\ track.flags = {FALSE}) => ret = Sentinel

\* C6 witness: a play after a reset that delivered two records, with
\* max_cycles > 0
C6_Witness ==
  /\ play.pc = "returned" /\ ~play.loop /\ play.from = "reset"
  /\ play.max_cycles > 0 /\ Len(cb) = 2 /\ N = 2

\* C7: has_next() returns true whenever the loop flag is set.
C7_HasNextInLoop ==
  (status = "Ready" /\ op = "has_next" /\ _loop_enabled) => retb = TRUE

\* C7 witness: has_next() in loop mode on a stream that has hit the end of
\* a file without data lines
C7_Witness ==
  /\ status = "Ready" /\ op = "has_next" /\ _loop_enabled /\ retb
  /\ _file.eof /\ _file.fail /\ N = 0

\* C8 as claimed: with the loop flag unset, has_next() returns true exactly
\* when unread characters remain after the cursor.
C8_HasNextIffUnread ==
  (status = "Ready" /\ op = "has_next" /\ ~_loop_enabled) =>
    (retb <=> _file.pos < Len(file))

\* C8 amended: with the loop flag unset, has_next() returns true whenever
\* unread characters remain after the cursor, and returns false exactly
\* when a read has hit the end of the source (eofbit or failbit is set): it
\* still returns true after the last line has been consumed when that line
\* ends with a newline.
C8_HasNextIffNoReadHitEnd ==
  (status = "Ready" /\ op = "has_next" /\ ~_loop_enabled) =>
    /\ _file.pos < Len(file) => retb
    /\ ~retb <=> (_file.eof \/ _file.fail)

\* C8 witness: has_next() returning true with nothing left to read
C8_Witness ==
  /\ status = "Ready" /\ op = "has_next" /\ ~_loop_enabled
  /\ retb /\ _file.pos = Len(file) /\ N >= 1

\* C9: with the loop flag unset, once advance() has returned the sentinel,
\* every later advance() returns the sentinel (a value, not an exception)
\* and has_next() returns false, until reset() or set_loop(true).
C9_ExhaustionAbsorbing ==
  (status = "Ready" /\ exhausted) =>
    /\ ~_loop_enabled
    /\ op = "advance" => ret = Sentinel
    /\ op = "has_next" => retb = FALSE
    /\ ~has_next(_file, _loop_enabled)

\* C9 witness: a second sentinel in a row from a source with data lines
C9_Witness ==
  /\ status = "Ready" /\ exhausted /\ op = "advance" /\ ret = Sentinel
  /\ track.origin = "construct" /\ track.n = N + 2 /\ N >= 1
  /\ track.flags = {FALSE}

\* C10: construction fails with the open error when the source cannot be
\* opened, fails with the header error when the source opens but has no
\* line that is neither comment nor blank, and succeeds otherwise.
C10_Construction ==
  status # "Unopened" =>
    /\ ~openable =>
         (status = "Failed" /\ thrown = "Failed to open CSV file")
    /\ (openable /\ ~HasHeader) =>
         /\ status = "Failed"
         /\ thrown = "CSV file is empty or cannot read header line"
    /\ (openable /\ HasHeader) => (status = "Ready" /\ thrown = "")

\* C10 witness: a file of comment and blank lines only, rejected
C10_Witness ==
  /\ status = "Failed" /\ openable /\ Len(file) > 0
  /\ thrown = "CSV file is empty or cannot read header line"

\* C11: a step of set_loop(b) leaves the stream (position, eofbit, failbit)
\* and the header fields as they were and makes is_loop_enabled() return b;
\* is_loop_enabled() returns false after construction; and no step of
\* another operation changes the loop flag.
C11_SetLoopFrame ==
  [][/\ op' = "set_loop" =>
          (_file' = _file /\ _headers' = _headers
           /\ _headersparsed' = _headersparsed)
     /\ \A b \in BOOLEAN : SetLoop(b) => is_loop_enabled(_loop_enabled') = b
     /\ (op' = "construct" /\ status' = "Ready") =>
          ~is_loop_enabled(_loop_enabled')
     /\ op' # "set_loop" => _loop_enabled' = _loop_enabled]_vars

\* C11 witness: set_loop(false) called in mid-file after advance() calls
\* made with the flag set
C11_Witness ==
  /\ status = "Ready" /\ op = "set_loop" /\ ~is_loop_enabled(_loop_enabled)
  /\ track.n >= 1 /\ track.flags = {TRUE}
  /\ _file.pos > AfterHeader

\* C12: whatever was done with the loop flag before, an advance() made with
\* the flag cleared returns the record of the first data line after the
\* cursor and leaves the cursor after that line, or returns the sentinel
\* when no data line is left: the drain yields the rest of the current pass
\* in order and does not wrap around.
C12_ClearedLoopDrains ==
  [][(status = "Ready" /\ op' = "advance" /\ ~_loop_enabled) =>
       IF RecsAfter(_file.pos) = << >> THEN ret' = Sentinel
       ELSE /\ ret' = Head(RecsAfter(_file.pos))
            /\ RecsAfter(_file'.pos) = Tail(RecsAfter(_file.pos))]_vars

\* C12 witness: the fourth advance() over two data lines, hence after a
\* wrap-around in loop mode, made with the flag cleared and returning the
\* second record
C12_Witness ==
  /\ status = "Ready" /\ op = "advance" /\ ~_loop_enabled
  /\ N = 2 /\ track.origin = "construct" /\ track.flags = {TRUE, FALSE}
  /\ track.n = 4 /\ ret = Rec(2) /\ Rec(1) # Rec(2)

\* a number with the given integer value, a string, the key of an object
JInt(n) == JNumber(Finite(n < 0, IF n < 0 THEN 0 - n ELSE n, 0))

\* the first advance() after construction has returned
FirstAdvance ==
  status = "Ready" /\ op = "advance" /\ track.origin = "construct"
  /\ track.n = 1

\* the file made of one header line and one data line
HeaderAndRow(h, r) == file = Content(<<h, r>>, TRUE)

\* the segments of a header field under the rule that '.' and '[' start a
\* new segment, "]." starts a new segment and a bare ']' is dropped
RECURSIVE bracket_scan(_, _, _, _)
bracket_scan(field, i, segment, segments) ==
  IF i > Len(field) THEN Append(segments, segment)
  ELSE IF field[i] \in {".", "["}
  THEN bracket_scan(field, i + 1, << >>, Append(segments, segment))
  ELSE IF field[i] = "]" /\ i < Len(field) /\ field[i + 1] = "."
  THEN bracket_scan(field, i + 2, << >>, Append(segments, segment))
  ELSE IF field[i] = "]"
  THEN bracket_scan(field, i + 1, segment, segments)
  ELSE bracket_scan(field, i + 1, Append(segment, field[i]), segments)

\* the header fields rewritten in dot notation under that rule
Dotted(headers) ==
  [i \in 1..Len(headers) |-> JoinDots(bracket_scan(headers[i], 1, << >>, << >>))]

CommasOutsideQuotes(line) ==
  {i \in 1..Len(line) :
     /\ line[i] = ","
     /\ Cardinality({k \in 1..(i - 1) : line[k] = "\""}) % 2 = 0}

\* the fields with a comma between each two
RECURSIVE JoinCommas(_)
JoinCommas(fields) ==
  IF Len(fields) = 1 THEN fields[1]
  ELSE fields[1] \o <<",">> \o JoinCommas(Tail(fields))

\* C14: parse_csv_line returns one field more than the line has commas
\* outside quotes (the quote flag toggling at every double quote); the
\* fields joined with commas are the line without its double quotes; the
\* line "a,b" in quotes gives the single field a,b, also when the closing
\* quote is missing; the empty line gives one empty field.
C14_Tokenizer ==
  (arg.fn = "parse_csv_line" /\ out.done) =>
    /\ Len(out.fields) = Cardinality(CommasOutsideQuotes(arg.str)) + 1
    /\ JoinCommas(out.fields) = SelectSeq(arg.str, LAMBDA c : c # "\"")
    /\ arg.str = <<"\"", "a", ",", "a", "\"">> =>
         out.fields = <<<<"a", ",", "a">>>>
    /\ arg.str = <<"\"", "a", ",", "a">> => out.fields = <<<<"a", ",", "a">>>>
    /\ arg.str = << >> => out.fields = <<<< >>>>

\* C14 witness: a line with a comma inside quotes and one outside, the
\* last quote unterminated
C14_Witness ==
  /\ arg.fn = "parse_csv_line" /\ out.done
  /\ arg.str = <<"\"", ",", "\"", ",", "\"">>
  /\ out.fields = <<<<",">>, << >>>>

\* the header fields and the values of the first data line
RowValues == parse_csv_line(DataLines[1])

\* the columns paired with a value of that line
Paired == 1..(IF Len(_headers) < Len(RowValues) THEN Len(_headers)
              ELSE Len(RowValues))

\* the columns among them whose path has a numeric segment
Indexed == {i \in Paired : first_numeric(split_keypath(_headers[i]), 1) # 0}

\* the segments before the first numeric segment of an indexed column, and
\* the index that segment denotes
BaseOf(i) ==
  SubSeq(split_keypath(_headers[i]), 1,
         first_numeric(split_keypath(_headers[i]), 1) - 1)

IndexOf(i) ==
  stoi(split_keypath(_headers[i])[first_numeric(split_keypath(_headers[i]), 1)]).val

\* the value of a record at a path, null when the path leads nowhere
RECURSIVE AtPath(_, _)
AtPath(j, path) ==
  IF path = << >> THEN j
  ELSE IF Contains(j, path[1]) THEN AtPath(Get(j, path[1]), Tail(path))
  ELSE JNull

\* the array the claim describes for the indexed columns cols: as long as
\* their largest index plus one, each position holding the value of the
\* (last) column with that index, null where there is none
ArrayOf(cols) ==
  LET indices == {IndexOf(i) : i \in cols}
      length  == IF \E x \in indices : x >= 0
                 THEN 1 + CHOOSE x \in indices : \A y \in indices : y <= x
                 ELSE 0
      last(k) == CHOOSE i \in cols :
                   IndexOf(i) = k /\ \A h \in cols : IndexOf(h) = k => h <= i
  IN  JArray([k \in 1..length |->
                IF (k - 1) \in indices THEN Scalar(RowValues[last(k - 1)])
                ELSE JNull])

\* another indexed column attaches its array at or below the path base
Overlaid(base) ==
  \E h \in Indexed :
    /\ Len(BaseOf(h)) > Len(base)
    /\ SubSeq(BaseOf(h), 1, Len(base)) = base

\* C15 as claimed: for each array base path of the header the record holds
\* at that path the array of its paired columns, as long as their largest
\* index plus one, null where no column has the index.
C15_ArrayAtEveryBase ==
  (FirstAdvance /\ IsValue(ret)) =>
    \A i \in Indexed :
      AtPath(ret, BaseOf(i)) = ArrayOf({h \in Indexed : BaseOf(h) = BaseOf(i)})

\* C15 amended: the same, for each array base path that is not a prefix of
\* another array base path of the header; a base path that is one is
\* overwritten by the object the longer path is attached under.
C15_ArrayAtOutermostBase ==
  (FirstAdvance /\ IsValue(ret)) =>
    \A i \in Indexed :
      IF Overlaid(BaseOf(i))
      THEN AtPath(ret, BaseOf(i)).t = "object"
      ELSE AtPath(ret, BaseOf(i)) =
             ArrayOf({h \in Indexed : BaseOf(h) = BaseOf(i)})

\* C15 witness: the header s.0,s.2 and a row of four values give
\* s = [1, null, "j"]
C15_Witness ==
  /\ FirstAdvance /\ HeaderAndRow(HeadSparse, RowFour)
  /\ ret = JObject(<< <<<<"s">>, JArray(<<JInt(1), JNull, JString(<<"j">>)>>)>> >>)

\* the top-level keys of a record
Keys(j) == {j.kv[k][1] : k \in 1..Len(j.kv)}

\* C16: the values of a row are paired with the header columns by position;
\* the top-level keys of the record are the first segments of the paired
\* columns alone, so a column without value gives no key, and values
\* beyond the last column change nothing.  Under header t,d.n,s.0,s.1 the
\* row 1,j,5 gives s = [5] with no second element, the row x gives the
\* single key t, the row 1,j,5,6,7 gives what 1,j,5,6 gives; a column
\* without value raises no error, whatever its header field.
C16_PairedByPosition ==
  FirstAdvance =>
    /\ IsValue(ret) =>
         Keys(ret) = {split_keypath(_headers[i])[1] : i \in Paired}
    /\ HeaderAndRow(HeadDots, RowThree) =>
         ret = JObject(<<
                 <<<<"d">>, JObject(<< <<<<"n">>, JString(<<"j">>)>> >>)>>,
                 <<<<"s">>, JArray(<<JInt(5)>>)>>,
                 <<<<"t">>, JInt(1)>> >>)
    /\ HeaderAndRow(HeadDots, RowOne) =>
         ret = JObject(<< <<<<"t">>, JString(<<"x">>)>> >>)
    /\ HeaderAndRow(HeadDots, RowFive) =>
         ret = JObject(<<
                 <<<<"d">>, JObject(<< <<<<"n">>, JString(<<"j">>)>> >>)>>,
                 <<<<"s">>, JArray(<<JInt(5), JInt(6)>>)>>,
                 <<<<"t">>, JInt(1)>> >>)
    /\ (HeaderAndRow(HeadNan, RowOne) \/ HeaderAndRow(HeadEmptyField, RowOne)) =>
         ret = JObject(<< <<<<"a">>, JString(<<"x">>)>> >>)

\* C16 witness: a row of three values under a header of four columns
C16_Witness ==
  /\ FirstAdvance /\ HeaderAndRow(HeadDots, RowThree)
  /\ Len(_headers) = 4 /\ Len(RowValues) = 3
  /\ Get(ret, <<"s">>) = JArray(<<JInt(5)>>)

\* a line is skipped as claimed: its first character after leading spaces
\* and tabs is '#', or it holds white space only
SkippedAsClaimed(line) ==
  \/ \E i \in 1..Len(line) :
       line[i] = "#" /\ \A k \in 1..(i - 1) : line[k] \in {" ", "\t"}
  \/ \A i \in 1..Len(line) : line[i] \in {" ", "\t", "\r", "\n"}

\* a line is skipped as the comments of the code say: its first character
\* after leading spaces is '#', or it holds white space only
SkippedAfterSpaces(line) ==
  \/ \E i \in 1..Len(line) :
       line[i] = "#" /\ \A k \in 1..(i - 1) : line[k] = " "
  \/ \A i \in 1..Len(line) : line[i] \in {" ", "\t", "\r", "\n"}

\* the lines of the file that Skipped does not skip
Unskipped(Skipped(_)) == SelectSeq(FileLines(file, 1), LAMBDA l : ~Skipped(l))

\* the lines of kept are all the engine sees: the first is the header line
\* of the constructor (which throws when there is none), the others are,
\* in order, the lines whose records advance() returns after construction
\* and after reset(), and the lines play counts for its cycles
OnlySeen(kept) ==
  /\ status = "Ready" => (kept # << >> /\ _headers = parse_csv_line(kept[1]))
  /\ (status = "Failed" /\ openable) => kept = << >>
  /\ ((Drained("construct", FALSE) \/ Drained("reset", FALSE)) /\ IsValue(ret)) =>
       IF track.n < Len(kept)
       THEN ret = build_json_from_row(_headers, parse_csv_line(kept[track.n + 1]))
       ELSE ret = Sentinel
  /\ play.pc = "cycles" => play.total = play.max_cycles * (Len(kept) - 1)

\* C17 as claimed: the lines whose first character after spaces and tabs
\* is '#' and the lines of white space are skipped everywhere: by the
\* constructor, by reset(), by advance() and by the row count of play.
C17_NotesAfterTabsSkipped == OnlySeen(Unskipped(SkippedAsClaimed))

\* C17 amended: the lines whose first character after leading spaces (not
\* tabs) is '#' and the lines of white space are skipped everywhere; a
\* line with a tab before its '#' is a header or data line.
C17_NotesAfterSpacesSkipped == OnlySeen(Unskipped(SkippedAfterSpaces))

\* C17 witness: a comment after a space before the header line, a line of
\* white space before the data line, and a comment after a tab returned as
\* the second record
C17_Witness ==
  /\ Drained("construct", FALSE) /\ track.n = 2
  /\ file = Content(<<NoteAfterSpace, <<"a">>, LineOfSpace, <<"1">>,
                      NoteAfterTab>>, TRUE)
  /\ ret = JObject(<< <<<<"a">>, JString(NoteAfterTab)>> >>)

\* C18: after a successful construction advance() returns a record,
\* whatever the header line and the data line: it neither throws nor runs
\* into undefined behaviour.
C18_AdvanceNeverRaises ==
  (status = "Ready" /\ op = "advance") => IsValue(ret)

\* the call of advance() about to be made finds a data line: with the loop
\* flag unset a line that is not skipped lies after the cursor, with the
\* flag set the file has a data line
FindsDataLine ==
  IF _loop_enabled THEN N >= 1
  ELSE SelectSeq(FileLines(file, _file.pos + 1), LAMBDA l : ~SkipLine(l)) # << >>

\* C19: whatever the header line and the data line, a record advance()
\* returns for a data line has at least one top-level field, and the record
\* it returns when it finds no data line is empty: advance() returns an
\* empty record exactly when it found no data line.
C19_SentinelIffNoDataLine ==
  [][(status = "Ready" /\ op' = "advance" /\ IsValue(ret')) =>
       (JEmpty(ret') <=> ~FindsDataLine)]_vars

\* C19 witness: under header s.-1 the row x gives the record with the
\* empty array s, which is not the empty record
C19_Witness ==
  /\ FirstAdvance /\ HeaderAndRow(<<"s", ".", "-", "1", ",", "s", ".", "1">>, RowOne)
  /\ ret = JObject(<< <<<<"s">>, JArray(<< >>)>> >>)
  /\ ~JEmpty(ret)

\* what set_nested_value stored under the key k
Stored == Get(out.json, <<"k">>)

\* s[a..b] lies in set
AllIn(s, a, b, set) == \A i \in a..b : s[i] \in set

\* s[a..b] is a mantissa: digits with at most one point and at least one
\* digit
MantissaForm(s, a, b, digits) ==
  /\ AllIn(s, a, b, digits \cup {"."})
  /\ Cardinality({i \in a..b : s[i] = "."}) <= 1
  /\ \E i \in a..b : s[i] \in digits

\* s[a..b] is empty or an exponent: a mark, an optional sign and at least
\* one decimal digit
ExponentForm(s, a, b, marks) ==
  \/ a > b
  \/ /\ s[a] \in marks
     /\ \E q \in {a + 1, a + 2} :
          /\ q = a + 2 => (a + 1 <= b /\ s[a + 1] \in {"+", "-"})
          /\ q <= b
          /\ AllIn(s, q, b, Digits)

\* s[a..b] is a decimal literal: mantissa and optional exponent
DecimalForm(s, a, b) ==
  \E m \in a..b :
    MantissaForm(s, a, m, Digits) /\ ExponentForm(s, m + 1, b, {"e", "E"})

\* s[a..b] is a hexadecimal literal: 0x, a hexadecimal mantissa and an
\* optional binary exponent
HexForm(s, a, b) ==
  /\ a + 2 <= b
  /\ s[a] = "0" /\ s[a + 1] \in {"x", "X"}
  /\ \E m \in (a + 2)..b :
       MantissaForm(s, a + 2, m, HexDigits)
       /\ ExponentForm(s, m + 1, b, {"p", "P"})

\* s[a..b] is inf, infinity or nan in any case, nan optionally followed by
\* a parenthesised sequence of letters, digits and underscores
WordForm(s, a, b) ==
  \/ LowerStr(SubSeq(s, a, b)) \in
       { <<"i", "n", "f">>, <<"i", "n", "f", "i", "n", "i", "t", "y">>,
         <<"n", "a", "n">> }
  \/ /\ a + 4 <= b
     /\ LowerStr(SubSeq(s, a, a + 2)) = <<"n", "a", "n">>
     /\ s[a + 3] = "(" /\ s[b] = ")"
     /\ AllIn(s, a + 4, b - 1, NanChars)

\* s[p..] after an optional sign is of one of the forms
SignedForm(s, p, Form(_, _, _)) ==
  \E q \in {p, p + 1} :
    /\ q = p + 1 => (p <= Len(s) /\ s[p] \in {"+", "-"})
    /\ q <= Len(s)
    /\ Form(s, q, Len(s))

AnyForm(s, a, b) == DecimalForm(s, a, b) \/ HexForm(s, a, b) \/ WordForm(s, a, b)

\* the whole of s is white space, then an optional sign, then a number
NumberForm(s) ==
  \E w \in 0..Len(s) : AllIn(s, 1, w, Spaces) /\ SignedForm(s, w + 1, AnyForm)

\* s without the white space around it
Trim(s) ==
  IF AllIn(s, 1, Len(s), Spaces) THEN << >>
  ELSE SubSeq(s,
              CHOOSE i \in 1..Len(s) :
                s[i] \notin Spaces /\ AllIn(s, 1, i - 1, Spaces),
              CHOOSE j \in 1..Len(s) :
                s[j] \notin Spaces /\ AllIn(s, j + 1, Len(s), Spaces))

\* optional sign, digits with optional fraction, optional exponent
PlainDecimal(s) == SignedForm(s, 1, DecimalForm)

DotForm(field) ==
  IF field # << >> /\ field[1] = "/"
  THEN [i \in 1..(Len(field) - 1) |->
          IF field[i + 1] = "/" THEN "." ELSE field[i + 1]]
  ELSE field

C22_ResetIdempotent ==
  [][/\ status = "Ready" =>
          reset(file, reset(file, _file)) = reset(file, _file)
     /\ op' = "reset" =>
          /\ reset(file, _file') = _file'
          /\ _file'.pos = AfterHeader
          /\ _loop_enabled' = _loop_enabled
          /\ _headers' = _headers]_vars

\* C22 witness: after a reset() made with the loop flag set on a file with
\* data lines, one more reset() would leave the stream as it is
C22_Witness ==
  /\ status = "Ready" /\ op = "reset" /\ _loop_enabled /\ N >= 1
  /\ _file = Stream(AfterHeader, FALSE, FALSE)
  /\ reset(file, _file) = _file
  /\ AfterHeader < Len(file)
\* the data lines that start at or after position p
DataLinesFrom(p) ==
  SelectSeq(FileLines(file, p + 1), LAMBDA l : ~SkipLine(l))

\* the call of advance() made statement by statement has returned
Returned == arg.fn = "advance" /\ out.pc = "done"

\* C23 as stated: every advance() returns, after at most one implicit
\* reset; with the loop flag set and no data line between the cursor and the
\* end of the source it resets once, and returns the sentinel when the
\* source has no data line at all.
C23_ResetsOnceWhenNoDataLine ==
  /\ [](out.resets <= 1)
  /\ arg.fn = "advance" => <>Returned
  /\ [](Returned =>
         ((_loop_enabled /\ DataLinesFrom(arg.st.pos) = << >>) =>
            /\ out.resets = 1
            /\ N = 0 => ret = Sentinel))

\* C23 amended: every advance() returns, after at most one implicit reset.
\* It resets (once) exactly when the loop flag is set, no data line lies
\* between the cursor and the end of the source, and the stream is not in
\* the failed state without eofbit; after the reset it returns the first
\* record, or the sentinel when the source has no data line.  On a stream
\* with failbit alone it returns the sentinel without a reset.  What the
\* statements return and leave is what advance() as one step does.
C23_AtMostOneReset ==
  /\ [](out.resets <= 1)
  /\ arg.fn = "advance" => <>Returned
  /\ [](Returned =>
         /\ out.resets = 1 <=>
              /\ _loop_enabled
              /\ DataLinesFrom(arg.st.pos) = << >>
              /\ arg.st.fail => arg.st.eof
         /\ out.resets = 1 => ret = (IF N = 0 THEN Sentinel ELSE Rec(1))
         /\ (arg.st.fail /\ ~arg.st.eof) => (out.resets = 0 /\ ret = Sentinel)
         /\ [st |-> _file, ret |-> ret] =
              advance(file, arg.st, _loop_enabled, _headers))

\* C23 witness: with the loop flag set on a source without data line,
\* advance() has reset once, scanned again and returned the sentinel
C23_Witness ==
  /\ Returned /\ _loop_enabled /\ N = 0
  /\ out.resets = 1 /\ ret = Sentinel
  /\ _file.eof /\ _file.fail
\* play(func, max_cycles) with max_cycles > 0 has just returned, the loop
\* flag set, on a source without data line
PlayedNoRows ==
  /\ status = "Ready" /\ op = "play" /\ play.pc = "returned"
  /\ play.loop /\ play.max_cycles > 0 /\ N = 0

\* has_next(), advance() and the has_next() after that advance() give from
\* stream s what they give from stream t, the loop flag being b
SameResults(s, t, b) ==
  /\ has_next(s, b) = has_next(t, b)
  /\ advance(file, s, b, _headers).ret = advance(file, t, b, _headers).ret
  /\ \A c \in BOOLEAN :
       has_next(advance(file, s, b, _headers).st, c)
         = has_next(advance(file, t, b, _headers).st, c)

\* C24: with the loop flag set and max_cycles > 0 on a source without data
\* lines, play returns without calling the callback, and has_next() and
\* advance() then return what they would have returned from the stream play
\* was called on, whatever the loop flag is set to afterwards.
C24_PlayWithoutRows ==
  PlayedNoRows =>
    /\ cb = << >>
    /\ \A b \in BOOLEAN : SameResults(_file, play.start, b)

\* C24 witness: play called on a readable stream at the end of a source
\* without data lines, where has_next() without the loop flag is true, and
\* the stream restored
C24_Witness ==
  /\ PlayedNoRows /\ cb = << >>
  /\ good(play.start) /\ play.start.pos = Len(file)
  /\ has_next(_file, FALSE)
  /\ _file = play.start
\* play(func, 0) is being executed with the loop flag set
PlayingLoop == arg.fn = "play" /\ _loop_enabled

\* the number of data lines before the position p
DataLinesBefore(p) == N - Len(DataLinesFrom(p))

\* C25: with the loop flag set and max_cycles == 0, play on a source with a
\* data line never returns: the callback is called again and again (as
\* many times as the model follows), with the records of the data lines in
\* file order from the cursor on, cyclically; on a source without data line
\* play returns without calling the callback.
C25_PlayForever ==
  /\ []((PlayingLoop /\ N >= 1) =>
         /\ out.pc # "done"
         /\ \A i \in 1..Len(cb) :
              cb[i] = Rec(((DataLinesBefore(arg.st.pos) + i - 1) % N) + 1))
  /\ (PlayingLoop /\ N >= 1) ~> (Len(cb) = MaxCallbacks)
  /\ []((PlayingLoop /\ N = 0) => cb = << >>)
  /\ (PlayingLoop /\ N = 0) ~> (out.pc = "done")

\* C25 witness: the callback called MaxCallbacks times over two different
\* data lines, play started in mid-file and still in its loop
C25_Witness ==
  /\ PlayingLoop /\ N = 2 /\ Rec(1) # Rec(2)
  /\ DataLinesBefore(arg.st.pos) = 1
  /\ Len(cb) = MaxCallbacks /\ out.pc = "while"
  /\ cb[1] = Rec(2) /\ cb[2] = Rec(1) /\ cb[3] = Rec(2)
\* the header line of the file
HeaderLine == Head(KeptLines(file))

\* C26: the header fields are set by the constructor, as many as the
\* tokenizer yields fields for the header line (one more than the commas
\* outside quotes), and no step of advance(), has_next(), reset(),
\* set_loop() or play() changes them, the implicit resets included.
C26_HeadersFixed ==
  [][/\ status = "Ready" => _headers' = _headers
     /\ status' = "Ready" =>
          /\ _headers' = parse_csv_line(HeaderLine)
          /\ Len(_headers') = Cardinality(CommasOutsideQuotes(HeaderLine)) + 1]_vars

\* C26 witness: under the header line "a,b",c, of two fields, the second
\* advance() in loop mode over one data line, hence after an implicit reset
C26_Witness ==
  /\ status = "Ready" /\ op = "advance" /\ HeaderAndRow(HeadQuoted, RowOne)
  /\ track = Track("construct", 2, {TRUE})
  /\ _headers = << <<"a", ",", "b">>, <<"c">> >>
  /\ ret = JObject(<< << <<"a", ",", "b">>, JString(<<"x">>) >> >>)

\* s is a prefix of t, or t of s
PrefixRelated(s, t) ==
  LET n == IF Len(s) < Len(t) THEN Len(s) ELSE Len(t)
  IN  SubSeq(s, 1, n) = SubSeq(t, 1, n)

\* where a paired column attaches its value: the base path of an indexed
\* column, the whole path of any other
AttachPath(i) ==
  IF i \in Indexed THEN BaseOf(i) ELSE split_keypath(_headers[i])

\* the last paired column that writes the same array element as column i
LastWriter(i) ==
  CHOOSE h \in Indexed :
    /\ BaseOf(h) = BaseOf(i) /\ IndexOf(h) = IndexOf(i)
    /\ \A g \in Indexed :
         (BaseOf(g) = BaseOf(i) /\ IndexOf(g) = IndexOf(i)) => g <= h

\* C27: of a header path with a numeric segment only the first numeric
\* segment counts: the segments before it are the base path of an array,
\* the segment is the index, the segments after it leave no trace, and the
\* element holds the value of the last column that writes it; a path with
\* no numeric segment holds its value as a nested-object leaf.
C27_FirstNumericSegment ==
  (FirstAdvance /\ IsValue(ret)) =>
    \A i \in Paired :
      IF i \in Indexed
      THEN (IndexOf(i) >= 0 /\ ~Overlaid(BaseOf(i))) =>
             /\ AtPath(ret, BaseOf(i)).t = "array"
             /\ AtPath(ret, BaseOf(i)).kv[IndexOf(i) + 1][2] =
                  Scalar(RowValues[LastWriter(i)])
      ELSE (\A h \in Paired \ {i} :
              ~PrefixRelated(AttachPath(h), AttachPath(i))) =>
             AtPath(ret, AttachPath(i)) = Scalar(RowValues[i])

\* C27 witness: the header i.0.n,i.0.1,k.m and the row 1,j,5,6 give
\* i = ["j"] and k = {m: 5}
C27_Witness ==
  /\ FirstAdvance /\ HeaderAndRow(HeadItems, RowFour)
  /\ ret = JObject(<< << <<"i">>, JArray(<<JString(<<"j">>)>>) >>,
                      << <<"k">>,
                         JObject(<< << <<"m">>,
                                       JNumber(Finite(FALSE, 5, 0)) >> >>) >> >>)

\* a step in which advance() is called on its own with the loop flag unset
AdvancesUnlooped == Idle /\ ~_loop_enabled /\ op' = "advance"

\* C28: with the loop flag unset has_next() never under-reports: when it
\* is false before a call of advance(), that call returns the sentinel
\* record; and it over-reports at most once in a row, since it is false
\* after every call of advance() that returned the sentinel.
C28_HasNextNeverUnderReports ==
  [][AdvancesUnlooped =>
       /\ ~has_next(_file, _loop_enabled) => ret' = Sentinel
       /\ ret' = Sentinel => ~has_next(_file', _loop_enabled')]_vars

\* C28 witness: a source without data lines; the first advance() has left
\* the stream at its end, has_next() is false, and the second advance()
\* has returned the sentinel
C28_Witness ==
  /\ status = "Ready" /\ op = "advance" /\ N = 0
  /\ track = Track("construct", 2, {FALSE})
  /\ ~has_next(_file, _loop_enabled)
  /\ ret = Sentinel

\* what k calls of advance() in a row return with the loop flag set, the
\* first of them on the stream st
RECURSIVE LoopRun(_, _)
LoopRunAfter(r, k) == <<r.ret>> \o LoopRun(r.st, k)

LoopRun(st, k) ==
  IF k = 0 THEN << >>
  ELSE LoopRunAfter(advance(file, st, TRUE, _headers), k - 1)

\* C29: once advance() has returned the sentinel with the loop flag unset,
\* set_loop(true) on a source with at least one data line makes the very
\* next advance() return the record of the first data line, and the calls
\* after it go on through the data lines periodically.
C29_LoopEnabledAfterExhaustion ==
  [][(status = "Ready" /\ exhausted /\ N >= 1
      /\ op' = "set_loop" /\ _loop_enabled') =>
       LoopRun(_file', 2 * N + 1) =
         [i \in 1..(2 * N + 1) |-> Rec(((i - 1) % N) + 1)]]_vars

\* C29 witness: two different data lines read, the sentinel returned with
\* the loop flag unset, the flag set, and the fourth advance() returning
\* the record of the first data line
C29_Witness ==
  /\ status = "Ready" /\ op = "advance" /\ _loop_enabled
  /\ N = 2 /\ Rec(1) # Rec(2)
  /\ track = Track("construct", 4, {FALSE, TRUE})
  /\ ret = Rec(1)

\* the number of non-empty records a run of advance() calls returns with
\* the loop flag unset, the first of them on the stream st, up to the
\* sentinel
RECURSIVE DrainCount(_)
DrainCountAfter(r) == IF r.ret = Sentinel THEN 0 ELSE 1 + DrainCount(r.st)

DrainCount(st) == DrainCountAfter(advance(file, st, FALSE, _headers))

\* play() is entered with the loop flag set and max_cycles > 0, the one
\* place that calls count_data_rows()
CountsRows == Idle /\ _loop_enabled /\ op' = "play" /\ play'.max_cycles > 0

\* C30: in every state count_data_rows() returns the number of non-empty
\* records a reset() followed by a drain with the loop flag unset returns,
\* and leaves a readable stream where it was; the call play() makes of it
\* uses that count and leaves the loop flag and the header paths alone.
C30_CountMatchesDrain ==
  /\ [](Idle =>
          /\ count_data_rows(file, _file).count = DrainCount(reset(file, _file))
          /\ good(_file) => count_data_rows(file, _file).st = _file)
  /\ [][CountsRows =>
          /\ _headers' = _headers /\ _loop_enabled' = _loop_enabled
          /\ play'.total = play'.max_cycles * DrainCount(reset(file, _file))
          /\ (good(_file) /\ play'.pc = "returned") => _file' = _file]_vars

\* C30 witness: play(func, 2) in loop mode called past the data line of a
\* source with a comment line and one data line; the count is one and the
\* stream after the count is the stream before it
C30_Witness ==
  /\ status = "Ready" /\ op = "play" /\ play.loop /\ play.max_cycles = 2
  /\ play.pc = "cycles" /\ play.processed = 0 /\ play.total = 2 /\ N = 1
  /\ \E i \in 1..Len(file) : file[i] = "#"
  /\ good(play.start) /\ play.start.pos > AfterHeader
  /\ count_data_rows(file, play.start) = [st |-> play.start, count |-> 1]

====
